---------------------------- MODULE Spec2Model ----------------------------
(***************************************************************************)
(* Model of src/pyst4h.py: a Streamlit script that fetches five pages of   *)
(* market records with an unbounded retry loop, builds one table, keeps it *)
(* in a 24 hour cache, and on every run coerces the date columns, narrows  *)
(* the table to the selected columns, renders it formatted and exports it  *)
(* as CSV.                                                                 *)
(*                                                                         *)
(* Numbers are decimals m * 10^(-e) (the floats the script handles are the *)
(* doubles nearest to the decimals of the JSON body and of the literals in *)
(* price_format, and comparing two such doubles agrees with comparing the  *)
(* decimals whenever the decimals differ by more than one ulp).  NaN is    *)
(* the float pandas stores for a JSON null in a numeric column.            *)
(***************************************************************************)
EXTENDS Integers, Sequences, FiniteSets

VARIABLES
    now,               \* wall clock, seconds
    cache,             \* the single entry of st.cache_data, or NoEntry
    lastCycleAt,       \* history: call time of the latest aggregation cycle
    upstream,          \* which records the API currently serves
    pc,                \* position of the script run
    page,              \* loop variable of get_top_500_pairs_by_volume
    all_data,          \* list built by get_top_500_pairs_by_volume
    coins,             \* value returned by the latest fetch
    pageLens,          \* history: records returned for each page of the cycle
    fetched,           \* history: page index of each fetch the cycle started
    req,               \* url and params of the running fetch
    sent,              \* history: requests issued by the running fetch
    attempts,          \* history: requests.get calls of the running fetch
    fails,             \* history: attempts of the running fetch that failed
    slept,             \* history: seconds slept by the running fetch
    warnings,          \* st.warning texts emitted by the running fetch
    resp,              \* outcome of the latest attempt
    pairs_df,          \* the run's DataFrame
    selected_columns,  \* the sidebar multiselect's value
    styled_df,         \* the rendered table (display strings)
    csv,               \* the CSV offered for download
    outcome,           \* how the run ended
    val,               \* argument of a stand-alone price_format call
    out                \* its result

vars == <<now, cache, lastCycleAt, upstream, pc, page, all_data, coins,
          pageLens, fetched, req, sent, attempts, fails, slept, warnings,
          resp, pairs_df, selected_columns, styled_df, csv, outcome, val, out>>

(***************************************************************************)
(* Bounds of the model.                                                    *)
(***************************************************************************)
MaxExp == 12           \* decimals m * 10^(-e) have e in 0..MaxExp
MaxPageLen == 2        \* records of a full page
MaxFail == 2           \* failed attempts of one fetch, fetcher on its own
MaxFailRun == 1        \* failed attempts of one fetch, within a script run
MaxTicks == 2          \* clock readings after the first
Tick == 50000          \* seconds between two clock readings

(***************************************************************************)
(* Values.                                                                 *)
(***************************************************************************)
None == [t |-> "None"]
NaN == [t |-> "num", nan |-> TRUE, m |-> 0, e |-> 0]
NaT == [t |-> "NaT"]
Dec(m, e) == [t |-> "num", nan |-> FALSE, m |-> m, e |-> e]
Str(s) == [t |-> "str", s |-> s]

RECURSIVE Pow10(_)
Pow10(n) == IF n = 0 THEN 1 ELSE 10 * Pow10(n - 1)

Abs(i) == IF i < 0 THEN -i ELSE i

\* v > 10^(-k), the comparison of a float with the literal 0.0..01 (k
\* decimals).  Every comparison with NaN is false.
Gt(v, k) ==
    IF v.nan \/ v.m <= 0 THEN FALSE
    ELSE IF k > v.e THEN TRUE
    ELSE IF k = v.e THEN v.m > 1
    ELSE IF v.e - k > 9 THEN FALSE
    ELSE v.m > Pow10(v.e - k)

\* The digits '{:,.nf}'.format(v) shows: v rounded to n decimals.  A decimal
\* tie is decided by the binary expansion of the double; the one sampled
\* value with a tie, 12.345, is the double 12.34500000000000063..., which
\* rounds up.
RoundTo(v, n) ==
    IF v.e <= n THEN [m |-> v.m, e |-> v.e]
    ELSE LET p == Pow10(v.e - n)
             a == Abs(v.m)
             q == a \div p
             r == a % p
             u == IF 2 * r >= p THEN q + 1 ELSE q
         IN  [m |-> IF v.m < 0 THEN -u ELSE u, e |-> n]

\* '{:,.nf}'.format(v) and '{:,.nf}%'.format(v): a display string.
FormatFixed(v, n, suffix) ==
    IF v.nan
    THEN [t |-> "text", digits |-> "nan", decimals |-> 0, suffix |-> suffix]
    ELSE [t |-> "text", digits |-> RoundTo(v, n), decimals |-> n,
          suffix |-> suffix]

\* v >= 10^(-k).
Ge(v, k) ==
    IF v.nan \/ v.m <= 0 THEN FALSE
    ELSE IF k >= v.e THEN TRUE
    ELSE IF v.e - k > 9 THEN FALSE
    ELSE v.m >= Pow10(v.e - k)

\* price_format with >= for >: a threshold value takes the upper range.
price_format_ge(v) ==
    IF Ge(v, 1) THEN FormatFixed(v, 2, "")
    ELSE IF Ge(v, 2) THEN FormatFixed(v, 4, "")
    ELSE IF Ge(v, 4) THEN FormatFixed(v, 6, "")
    ELSE IF Ge(v, 6) THEN FormatFixed(v, 8, "")
    ELSE IF Ge(v, 8) THEN FormatFixed(v, 10, "")
    ELSE IF Ge(v, 10) THEN FormatFixed(v, 12, "")
    ELSE FormatFixed(v, 15, "")

price_format(v) ==
    IF Gt(v, 1) THEN FormatFixed(v, 2, "")
    ELSE IF Gt(v, 2) THEN FormatFixed(v, 4, "")
    ELSE IF Gt(v, 4) THEN FormatFixed(v, 6, "")
    ELSE IF Gt(v, 6) THEN FormatFixed(v, 8, "")
    ELSE IF Gt(v, 8) THEN FormatFixed(v, 10, "")
    ELSE IF Gt(v, 10) THEN FormatFixed(v, 12, "")
    ELSE FormatFixed(v, 15, "")

(***************************************************************************)
(* The upstream API.  Record number i of page p has rank (p-1)*per_page+i; *)
(* which of the sampled field values it carries depends on the rank and on *)
(* what the API serves at the time (upstream).                             *)
(***************************************************************************)
per_page == 100
PageStop == 6
RetryDelay == 10
ttl == 86400
Flavours == {0, 1, 2}

URL == "https://api.coingecko.com/api/v3/coins/markets"

Params(p) ==
    [vs_currency |-> "usd", order |-> "volume_desc", per_page |-> per_page,
     page |-> p]

RawColumns ==
    <<"id", "symbol", "current_price", "total_volume",
      "price_change_percentage_24h", "ath_date", "atl_date">>

Sample(k) ==
    CASE k = 0 ->
           [symbol |-> Str("btc"), current_price |-> Dec(12345, 1),
            total_volume |-> Dec(987654, 0),
            price_change_percentage_24h |-> Dec(12345, 3),
            ath_date |-> Str("2021-11-10T14:24:11.849Z"),
            atl_date |-> Str("2013-07-06T00:00:00.000Z")]
      [] k = 1 ->
           [symbol |-> Str("eth"), current_price |-> Dec(5, 5),
            total_volume |-> Dec(15, 1),
            price_change_percentage_24h |-> Dec(-5, 1),
            ath_date |-> Str("not-a-date"),
            atl_date |-> None]
      [] OTHER ->
           [symbol |-> Str("doge"), current_price |-> Dec(1, 1),
            total_volume |-> Dec(0, 0),
            price_change_percentage_24h |-> Dec(0, 0),
            ath_date |-> None,
            atl_date |-> Str("2013-07-06T00:00:00.000Z")]

Rank(p, i) == (p - 1) * per_page + i

Rec(p, i, f) ==
    LET s == Sample((Rank(p, i) + f) % Cardinality(Flavours))
    IN  [id |-> Str(<<"coin", Rank(p, i)>>), symbol |-> s.symbol,
         current_price |-> s.current_price, total_volume |-> s.total_volume,
         price_change_percentage_24h |-> s.price_change_percentage_24h,
         ath_date |-> s.ath_date, atl_date |-> s.atl_date]

\* A JSON array of n market objects.
Body(p, n, f) == [t |-> "list", items |-> [i \in 1..n |-> Rec(p, i, f)]]

\* What response.json() can yield for page p: null, an empty array, or a
\* full page (per_page objects at the API, MaxPageLen in the model).
Bodies(p, f) == {None, Body(p, 0, f), Body(p, MaxPageLen, f)}

\* Python's truth value of a parsed body.
Truthy(c) == c.t = "list" /\ Len(c.items) > 0

NoResp == [status |-> 0, json |-> "none", body |-> None]

(***************************************************************************)
(* fetch_data_continuously(url, params), one action per way an attempt can *)
(* end, and the delay between attempts.  response.json() is called inside  *)
(* the try block and signals an unparseable body with                      *)
(* requests.exceptions.JSONDecodeError, a RequestException: the except     *)
(* clause catches it like a connection failure.                            *)
(***************************************************************************)
FetchFrame ==
    UNCHANGED <<now, cache, lastCycleAt, upstream, page, all_data, pageLens,
                fetched, req, pairs_df, selected_columns, styled_df, csv,
                outcome, val, out>>

AttemptCommon ==
    /\ pc = "attempt"
    /\ attempts' = attempts + 1
    /\ sent' = sent \cup {req}
    /\ UNCHANGED slept
    /\ FetchFrame

\* The warning, and then a return of nothing instead of the next attempt.
WarnAndReturn(text) ==
    /\ warnings' = Append(warnings, text)
    /\ fails' = fails + 1
    /\ pc' = "returned"
    /\ coins' = None

\* Lines 17 and 19, and the fall through to line 20.
WarnAndRetry(text) ==
    /\ warnings' = Append(warnings, text)
    /\ fails' = fails + 1
    /\ pc' = "sleep"
    /\ UNCHANGED coins

AttemptOk ==
    /\ AttemptCommon
    /\ \E body \in Bodies(req.params.page, upstream) :
          /\ resp' = [status |-> 200, json |-> "parsed", body |-> body]
          /\ coins' = resp'.body
    /\ pc' = "returned"
    /\ UNCHANGED <<warnings, fails>>

AttemptStatus(cap) ==
    /\ AttemptCommon
    /\ fails < cap
    /\ \E code \in {429, 500} :
          /\ resp' = [status |-> code, json |-> "none", body |-> None]
          /\ WarnAndRetry([text |-> "API error: Status {code}. Retrying...",
                          code |-> code])

AttemptException(cap) ==
    /\ AttemptCommon
    /\ fails < cap
    /\ resp' = NoResp
    /\ WarnAndRetry([text |-> "Connection issue. Retrying in 10 seconds...",
                    code |-> 0])

AttemptBadJson(cap) ==
    /\ AttemptCommon
    /\ fails < cap
    /\ resp' = [status |-> 200, json |-> "JSONDecodeError", body |-> None]
    /\ WarnAndRetry([text |-> "Connection issue. Retrying in 10 seconds...",
                    code |-> 0])

\* A delay that grows with the number of failures.
SleepBackoff ==
    /\ pc = "sleep"
    /\ slept' = slept + RetryDelay * fails
    /\ pc' = "attempt"
    /\ UNCHANGED <<coins, attempts, fails, sent, warnings, resp>>
    /\ FetchFrame

\* Line 20, and back to line 11.
Sleep ==
    /\ pc = "sleep"
    /\ slept' = slept + RetryDelay
    /\ pc' = "attempt"
    /\ UNCHANGED <<coins, attempts, fails, sent, warnings, resp>>
    /\ FetchFrame


(***************************************************************************)
(* DataFrames: the column labels in order, and one row (a function from    *)
(* label to cell) per record.                                              *)
(***************************************************************************)
NoDf == [columns |-> <<>>, rows |-> <<>>]
NoCsv == [header |-> <<>>, lines |-> <<>>]
NoEntry == [t |-> "NoEntry"]
NoReq == [url |-> "", params |-> Params(0)]

Range(s) == {s[i] : i \in 1..Len(s)}

\* pd.DataFrame(all_data): the columns are the keys of the records, so an
\* empty list gives a frame with no columns at all.
DataFrame(data) ==
    IF data = <<>> THEN NoDf
    ELSE [columns |-> RawColumns,
          rows |-> [i \in 1..Len(data) |->
                      [c \in Range(RawColumns) |-> data[i][c]]]]

\* str.upper()
Upper(c) ==
    IF c.t # "str" THEN c
    ELSE CASE c.s = "btc" -> Str("BTC")
           [] c.s = "eth" -> Str("ETH")
           [] c.s = "doge" -> Str("DOGE")
           [] OTHER -> c

Renamed(c) == IF c = "total_volume" THEN "Total Volume in USD" ELSE c

\* Lines 38-39 on a frame that has a 'symbol' column.
Normalised(df) ==
    LET cols == [i \in 1..Len(df.columns) |-> Renamed(df.columns[i])]
    IN  [columns |-> cols,
         rows |-> [i \in 1..Len(df.rows) |->
                     [c \in Range(cols) |->
                        IF c = "symbol" THEN Upper(df.rows[i]["symbol"])
                        ELSE IF c = "Total Volume in USD"
                             THEN df.rows[i]["total_volume"]
                             ELSE df.rows[i][c]]]]

(***************************************************************************)
(* st.cache_data(ttl=86400): one entry (the function takes no arguments),  *)
(* served while the clock reads less than ttl seconds past the time it was *)
(* stored, and dropped at the first lookup after that.  Every caller is    *)
(* handed a copy of its own.  The cache reads a float clock, on which an   *)
(* age of exactly ttl is not observed; Tick is no divisor of ttl, so the   *)
(* model's clock does not show one either.                                 *)
(***************************************************************************)
Served(c) == c # NoEntry /\ now < c.at + ttl

StoredAfterWriteShared(c, df) == IF c = NoEntry THEN c ELSE [c EXCEPT !.data = df]

\* The entry after the caller wrote into the frame it was handed: unchanged,
\* the caller holds a copy.
StoredAfterWrite(c, df) == c

RunFrame == UNCHANGED <<val, out>>

FetchIdle ==
    /\ req' = NoReq
    /\ sent' = {}
    /\ attempts' = 0
    /\ fails' = 0
    /\ slept' = 0
    /\ warnings' = <<>>
    /\ resp' = NoResp

\* Line 50, the entry is served.
CacheHit ==
    /\ pc = "idle"
    /\ Served(cache)
    /\ pairs_df' = cache.data
    /\ pc' = "select"
    /\ UNCHANGED <<now, cache, lastCycleAt, upstream, page, all_data, coins,
                   pageLens, fetched, req, sent, attempts, fails, slept,
                   warnings, resp, selected_columns, styled_df, csv, outcome>>
    /\ RunFrame

\* Line 50, nothing to serve: get_top_500_pairs_by_volume starts (line 24).
CacheMiss ==
    /\ pc = "idle"
    /\ ~Served(cache)
    /\ cache' = NoEntry
    /\ lastCycleAt' = now
    /\ upstream' \in Flavours
    /\ all_data' = <<>>
    /\ page' = 1
    /\ pageLens' = <<>>
    /\ fetched' = <<>>
    /\ pc' = "loop"
    /\ UNCHANGED <<now, coins, req, sent, attempts, fails, slept, warnings,
                   resp, pairs_df, selected_columns, styled_df, csv, outcome>>
    /\ RunFrame

\* Lines 25-33: the next page's fetch is called.
FetchCall ==
    /\ pc = "loop"
    /\ page < PageStop
    /\ req' = [url |-> URL, params |-> Params(page)]
    /\ fetched' = Append(fetched, page)
    /\ sent' = {}
    /\ attempts' = 0
    /\ fails' = 0
    /\ slept' = 0
    /\ warnings' = <<>>
    /\ resp' = NoResp
    /\ pc' = "attempt"
    /\ UNCHANGED <<now, cache, lastCycleAt, upstream, page, all_data, coins,
                   pageLens, pairs_df, selected_columns, styled_df, csv,
                   outcome>>
    /\ RunFrame

\* The page's records put in front of those collected so far.
ExtendPrepend(data, c) == IF Truthy(c) THEN c.items \o data ELSE data

\* An empty page discards what was collected so far.
ExtendOrClear(data, c) == IF Truthy(c) THEN data \o c.items ELSE <<>>

\* Lines 34-35.
Extend(data, c) == IF Truthy(c) THEN data \o c.items ELSE data

\* Lines 33-35: the fetch has returned.
FetchReturn ==
    /\ pc = "returned"
    /\ all_data' = Extend(all_data, coins)
    /\ pageLens' = Append(pageLens,
                          IF coins.t = "list" THEN Len(coins.items) ELSE 0)
    /\ page' = page + 1
    /\ pc' = "loop"
    /\ FetchIdle
    /\ UNCHANGED <<now, cache, lastCycleAt, upstream, coins, fetched,
                   pairs_df, selected_columns, styled_df, csv, outcome>>
    /\ RunFrame

\* Lines 37-41, and the return through the cache to line 50.  df['symbol']
\* raises KeyError on a frame without that column; the exception leaves
\* get_top_500_pairs_by_volume, nothing is stored, and the run ends.
Build ==
    /\ pc = "loop"
    /\ page >= PageStop
    /\ LET df == DataFrame(all_data)
       IN  IF "symbol" \notin Range(df.columns)
           THEN /\ outcome' = "KeyError: 'symbol'"
                /\ pc' = "done"
                /\ UNCHANGED <<cache, pairs_df>>
           ELSE /\ cache' = [t |-> "entry", data |-> Normalised(df),
                             at |-> now]
                /\ pairs_df' = Normalised(df)
                /\ pc' = "select"
                /\ UNCHANGED outcome
    /\ UNCHANGED <<now, lastCycleAt, upstream, page, all_data, coins,
                   pageLens, fetched, req, sent, attempts, fails, slept,
                   warnings, resp, selected_columns, styled_df, csv>>
    /\ RunFrame


(***************************************************************************)
(* The rest of the script run: lines 52-137.                               *)
(***************************************************************************)
columns_to_display ==
    <<"symbol", "current_price", "market_cap", "market_cap_rank",
      "fully_diluted_valuation", "Total Volume in USD", "high_24h",
      "low_24h", "price_change_24h", "price_change_percentage_24h",
      "market_cap_change_24h", "market_cap_change_percentage_24h",
      "circulating_supply", "total_supply", "max_supply", "ath",
      "ath_change_percentage", "ath_date", "atl", "atl_change_percentage",
      "atl_date">>

default_columns == <<"symbol", "current_price", "market_cap">>

\* [col for col in cols if col in available]
Available(cols, available) ==
    LET In(c) == c \in Range(available) IN SelectSeq(cols, In)

\* The selections tried: none, the default, two hand-picked ones, everything.
Selections(options) ==
    { <<>>,
      Available(default_columns, options),
      Available(<<"current_price", "price_change_percentage_24h">>, options),
      Available(<<"atl_date", "symbol", "ath_date">>, options),
      options }

\* Lines 53-73.
Select ==
    /\ pc = "select"
    /\ LET options == Available(columns_to_display, pairs_df.columns)
       IN  selected_columns' \in Selections(options)
    /\ pc' = "coerce"
    /\ UNCHANGED <<now, cache, lastCycleAt, upstream, page, all_data, coins,
                   pageLens, fetched, req, sent, attempts, fails, slept,
                   warnings, resp, pairs_df, styled_df, csv, outcome>>
    /\ RunFrame

\* The date strings the model knows how to parse.
ParseISO(s) ==
    CASE s = "2021-11-10T14:24:11.849Z" ->
           [t |-> "ts", y |-> 2021, mo |-> 11, d |-> 10,
            hms |-> <<14, 24, 11, 849>>]
      [] s = "2013-07-06T00:00:00.000Z" ->
           [t |-> "ts", y |-> 2013, mo |-> 7, d |-> 6, hms |-> <<0, 0, 0, 0>>]
      [] OTHER -> NaT

\* pd.to_datetime(x, errors='coerce') on one cell.
to_datetime(c) ==
    IF c.t = "ts" THEN c
    ELSE IF c.t = "str" THEN ParseISO(c.s)
    ELSE NaT

\* df[col] = pd.to_datetime(df[col], errors='coerce')
CoerceColumn(df, col) ==
    [df EXCEPT !.rows = [i \in 1..Len(df.rows) |->
                           [df.rows[i] EXCEPT
                              ![col] = to_datetime(df.rows[i][col])]]]

\* Lines 79-80, two assignments into the frame line 50 returned.
Coerce ==
    /\ pc = "coerce"
    /\ LET df == CoerceColumn(CoerceColumn(pairs_df, "ath_date"), "atl_date")
       IN  /\ pairs_df' = df
           /\ cache' = StoredAfterWrite(cache, df)
    /\ pc' = "render"
    /\ UNCHANGED <<now, lastCycleAt, upstream, page, all_data, coins,
                   pageLens, fetched, req, sent, attempts, fails, slept,
                   warnings, resp, selected_columns, styled_df, csv, outcome>>
    /\ RunFrame

Text(s) == [t |-> "text", digits |-> s, decimals |-> 0, suffix |-> ""]

notnull(c) == ~(c.t \in {"NaT", "None"} \/ (c.t = "num" /\ c.nan))

\* x.strftime('%Y-%m-%d')
strftime(c) == Text(<<c.y, "-", c.mo, "-", c.d>>)

PriceColumns == {"current_price", "high_24h", "low_24h", "ath", "atl"}

Fixed2Columns ==
    {"market_cap", "fully_diluted_valuation", "Total Volume in USD",
     "price_change_24h", "market_cap_change_24h", "circulating_supply",
     "total_supply", "max_supply"}

PercentColumns ==
    {"price_change_percentage_24h", "market_cap_change_percentage_24h",
     "ath_change_percentage", "atl_change_percentage"}

DateColumns == {"ath_date", "atl_date"}

DateDisplayRaw(c) == IF c.t = "ts" THEN strftime(c) ELSE c

\* Lines 123-124.
DateDisplay(c) == IF notnull(c) THEN strftime(c) ELSE Text("-")

\* Lines 105-124: the display string of one cell.
Display(col, c) ==
    IF col \in PriceColumns THEN price_format(c)
    ELSE IF col \in Fixed2Columns THEN FormatFixed(c, 2, "")
    ELSE IF col \in PercentColumns THEN FormatFixed(c, 2, "%")
    ELSE IF col \in DateColumns THEN DateDisplay(c)
    ELSE c

Styled(df) ==
    [columns |-> df.columns,
     rows |-> [i \in 1..Len(df.rows) |->
                 [c \in Range(df.columns) |-> Display(c, df.rows[i][c])]]]

\* pairs_df[selected_columns]
Narrow(df, cols) ==
    [columns |-> cols,
     rows |-> [i \in 1..Len(df.rows) |->
                 [c \in Range(cols) |-> df.rows[i][c]]]]

\* One CSV field: the repr of a float, a string as it is, a timestamp in
\* full, and nothing for a missing value.
CsvField(c) ==
    CASE c.t = "num" -> IF c.nan THEN [t |-> "field", s |-> ""]
                        ELSE [t |-> "field", m |-> c.m, e |-> c.e]
      [] c.t = "ts" -> [t |-> "field", y |-> c.y, mo |-> c.mo, d |-> c.d,
                        hms |-> c.hms]
      [] c.t \in {"NaT", "None"} -> [t |-> "field", s |-> ""]
      [] c.t = "str" -> [t |-> "field", s |-> c.s]
      [] OTHER -> [t |-> "field", s |-> c]

\* to_csv(index=False)
to_csv(df) ==
    [header |-> df.columns,
     lines |-> [i \in 1..Len(df.rows) |->
                  [j \in 1..Len(df.columns) |->
                     CsvField(df.rows[i][df.columns[j]])]]]

FrameAfterStyleInPlace(df, styled) == styled

\* The frame after lines 105-127: Styler.format builds the display strings
\* beside the frame.
FrameAfterStyle(df, styled) == df

\* DataFrame.empty
empty(df) == Len(df.rows) = 0 \/ Len(df.columns) = 0

\* Lines 100-137.
Render ==
    /\ pc = "render"
    /\ IF ~empty(pairs_df)
       THEN LET df == IF selected_columns # <<>>
                      THEN Narrow(pairs_df, selected_columns)
                      ELSE pairs_df
                after == FrameAfterStyle(df, Styled(df))
            IN  /\ styled_df' = Styled(df)
                /\ pairs_df' = after
                /\ csv' = to_csv(after)
                /\ outcome' = "table"
       ELSE /\ outcome' = "error: No data available to display."
            /\ UNCHANGED <<styled_df, pairs_df, csv>>
    /\ pc' = "done"
    /\ UNCHANGED <<now, cache, lastCycleAt, upstream, page, all_data, coins,
                   pageLens, fetched, req, sent, attempts, fails, slept,
                   warnings, resp, selected_columns>>
    /\ RunFrame

\* The script has run to its end, or an exception ended it; Streamlit waits
\* for the next rerun, which starts from fresh globals.
EndRun ==
    /\ pc = "done"
    /\ pc' = "idle"
    /\ page' = 1
    /\ all_data' = <<>>
    /\ coins' = None
    /\ pairs_df' = NoDf
    /\ selected_columns' = <<>>
    /\ styled_df' = NoDf
    /\ csv' = NoCsv
    /\ outcome' = ""
    /\ UNCHANGED <<now, cache, lastCycleAt, upstream, pageLens, fetched, req,
                   sent, attempts, fails, slept, warnings, resp>>
    /\ RunFrame

\* Time passes while the script waits: between runs and in time.sleep.
TickClock ==
    /\ pc \in {"idle", "sleep"}
    /\ now < MaxTicks * Tick
    /\ now' = now + Tick
    /\ UNCHANGED <<cache, lastCycleAt, upstream, pc, page, all_data, coins,
                   pageLens, fetched, req, sent, attempts, fails, slept,
                   warnings, resp, pairs_df, selected_columns, styled_df,
                   csv, outcome>>
    /\ RunFrame

(***************************************************************************)
(* The script: a session of runs.                                          *)
(***************************************************************************)
InitRun ==
    /\ now = 0
    /\ cache = NoEntry
    /\ lastCycleAt = -1
    /\ all_data = <<>>
    /\ coins = None
    /\ pageLens = <<>>
    /\ sent = {}
    /\ attempts = 0
    /\ fails = 0
    /\ slept = 0
    /\ warnings = <<>>
    /\ resp = NoResp
    /\ pairs_df = NoDf
    /\ selected_columns = <<>>
    /\ styled_df = NoDf
    /\ csv = NoCsv
    /\ outcome = ""

Init ==
    /\ InitRun
    /\ pc = "idle"
    /\ upstream = 0
    /\ page = 1
    /\ fetched = <<>>
    /\ req = NoReq
    /\ val = NaN
    /\ out = Text("")

Next ==
    \/ CacheHit
    \/ CacheMiss
    \/ FetchCall
    \/ AttemptOk
    \/ AttemptStatus(MaxFailRun)
    \/ AttemptException(MaxFailRun)
    \/ AttemptBadJson(MaxFailRun)
    \/ Sleep
    \/ FetchReturn
    \/ Build
    \/ Select
    \/ Coerce
    \/ Render
    \/ EndRun
    \/ TickClock

Spec == Init /\ [][Next]_vars


(***************************************************************************)
(* fetch_data_continuously on its own: one call, for any page and any      *)
(* state of the API.  The thread runs on (an attempt ends within its       *)
(* timeout, a sleep ends), and the API answers one attempt in the end.     *)
(***************************************************************************)
InitFetch ==
    /\ InitRun
    /\ pc = "attempt"
    /\ upstream \in Flavours
    /\ page \in 1..(PageStop - 1)
    /\ fetched = <<page>>
    /\ req = [url |-> URL, params |-> Params(page)]
    /\ val = NaN
    /\ out = Text("")

AttemptEnds ==
    \/ AttemptOk
    \/ AttemptStatus(MaxFail)
    \/ AttemptException(MaxFail)
    \/ AttemptBadJson(MaxFail)

NextFetch ==
    \/ AttemptEnds
    \/ Sleep

SpecFetch == InitFetch /\ [][NextFetch]_vars

FairFetch ==
    /\ SpecFetch
    /\ WF_vars(AttemptEnds)
    /\ WF_vars(Sleep)
    /\ SF_vars(AttemptOk)

(***************************************************************************)
(* price_format on its own, for every sampled value.                       *)
(***************************************************************************)
Mantissas == {-1, 0, 1, 2, 9, 10, 11, 99, 101, 999}

Values == {Dec(m, e) : m \in Mantissas, e \in 0..MaxExp} \cup {NaN}

InitFmt ==
    /\ InitRun
    /\ pc = "format"
    /\ upstream = 0
    /\ page = 1
    /\ fetched = <<>>
    /\ req = NoReq
    /\ val \in Values
    /\ out = Text("")

FormatCall ==
    /\ pc = "format"
    /\ out' = price_format(val)
    /\ pc' = "formatted"
    /\ UNCHANGED <<now, cache, lastCycleAt, upstream, page, all_data, coins,
                   pageLens, fetched, req, sent, attempts, fails, slept,
                   warnings, resp, pairs_df, selected_columns, styled_df,
                   csv, outcome, val>>

NextFmt == FormatCall

SpecFmt == InitFmt /\ [][NextFmt]_vars


(***************************************************************************)
(* Properties of fetch_data_continuously.                                  *)
(***************************************************************************)
InFetch == pc \in {"attempt", "sleep"}

\* C1: the fetch returns only from an attempt that got status 200, and it
\* returns the body parsed from that attempt's response; an attempt that
\* ends with another status or without a response (status 0 here) makes the
\* fetch neither return nor raise: it adds one warning, leaves the result
\* alone and goes to the delay, from which the only way on is a new attempt.
C1_ReturnsOnlyOn200 ==
    /\ [](pc \in {"attempt", "sleep", "returned"})
    /\ [](pc = "returned" =>
            /\ resp.status = 200
            /\ resp.json = "parsed"
            /\ coins = resp.body
            /\ coins \in Bodies(req.params.page, upstream))
    /\ [][(pc = "attempt" /\ resp'.status # 200) =>
            /\ pc' = "sleep"
            /\ Len(warnings') = Len(warnings) + 1
            /\ coins' = coins]_vars
    /\ [][pc = "sleep" => pc' = "attempt"]_vars

C1_Witness ==
    /\ pc = "returned"
    /\ fails = 2
    /\ warnings[1].code = 500
    /\ warnings[2].code = 0
    /\ Truthy(coins)

\* C2 as stated: an attempt answered with status 200 makes the fetch
\* return, after one more attempt than there were failures.
C2_Original ==
    [][(pc = "attempt" /\ resp'.status = 200) =>
         (pc' = "returned" /\ attempts' = fails' + 1)]_vars

\* C2 (amended): count as failed every attempt that ends with a status
\* other than 200, without a response, or with status 200 and a body that
\* does not parse as JSON.  Whatever the number of failed attempts, the
\* first attempt answered with status 200 and a parseable body makes the
\* fetch return; by then it has made one attempt more than failed, all with
\* the url and params it was called with, and has slept RetryDelay seconds
\* once per failed attempt.  It returns in no other way, and it returns
\* once the API gives such an answer.
C2_UnboundedRetry ==
    /\ [](pc = "returned" =>
            /\ attempts = fails + 1
            /\ slept = RetryDelay * fails
            /\ Len(warnings) = fails
            /\ sent = {[url |-> URL, params |-> Params(page)]})
    /\ [](pc = "attempt" => attempts = fails /\ slept = RetryDelay * fails)
    /\ [](pc = "sleep" =>
            attempts = fails /\ slept = RetryDelay * (fails - 1))
    /\ [][(pc = "attempt" /\ resp'.status = 200 /\ resp'.json = "parsed") =>
            pc' = "returned"]_vars
    /\ [][(pc # "returned" /\ pc' = "returned") =>
            (pc = "attempt" /\ resp'.status = 200 /\ resp'.json = "parsed")]_vars
    /\ (InFetch ~> pc = "returned")

C2_Witness ==
    /\ pc = "returned"
    /\ fails = MaxFail
    /\ attempts = MaxFail + 1
    /\ slept = RetryDelay * MaxFail
    /\ \E i \in 1..Len(warnings) : warnings[i].code = 429

(***************************************************************************)
(* Properties of price_format.                                             *)
(***************************************************************************)
\* 10^(-k) < v, and v <= 10^(-k).
Above(v, k) == Gt(v, k)
AtMost(v, k) == ~Gt(v, k)

InCycle == pc \in {"loop", "attempt", "sleep", "returned"}

\* The request the aggregator is to make for page p.
PageRequest(p) ==
    [url |-> "https://api.coingecko.com/api/v3/coins/markets",
     params |-> [vs_currency |-> "usd", order |-> "volume_desc",
                 per_page |-> 100, page |-> p]]

\* The records the API returned for the first n pages of the cycle, in page
\* order and, within a page, in the order of the response.
RECURSIVE PagesInOrder(_)
PagesInOrder(n) ==
    IF n = 0 THEN <<>>
    ELSE PagesInOrder(n - 1) \o [i \in 1..pageLens[n] |-> Rec(n, i, upstream)]

RECURSIVE Total(_)
Total(lens) == IF lens = <<>> THEN 0 ELSE Head(lens) + Total(Tail(lens))

Ids(rows) == [i \in 1..Len(rows) |-> rows[i]["id"]]

\* C3: a cycle fetches pages 1, 2, 3, 4, 5 in this order, once each, with
\* per_page 100 and order volume_desc, and starts no fetch before the one
\* before it has returned; the records collected, and the table the cycle
\* stores, are the page results in page order, each in its own order.
C3_PagesInOrder ==
    /\ Len(fetched) <= 5
    /\ \A i \in 1..Len(fetched) : fetched[i] = i
    /\ (pc \in {"attempt", "sleep", "returned"}) =>
          /\ Len(fetched) = Len(pageLens) + 1
          /\ req = PageRequest(Len(fetched))
    /\ pc = "loop" => (Len(fetched) = Len(pageLens) /\ page = Len(fetched) + 1)
    /\ InCycle => all_data = PagesInOrder(Len(pageLens))
    /\ cache # NoEntry =>
          /\ fetched = <<1, 2, 3, 4, 5>>
          /\ Len(pageLens) = 5
          /\ Ids(cache.data.rows) = Ids(PagesInOrder(5))
          /\ Len(cache.data.rows) = Total(pageLens)

C3_Witness ==
    /\ cache # NoEntry
    /\ pageLens = <<MaxPageLen, MaxPageLen, MaxPageLen, MaxPageLen, MaxPageLen>>
    /\ Len(cache.data.rows) = 5 * MaxPageLen
    /\ cache.data.rows[1]["id"] = Str(<<"coin", 1>>)
    /\ cache.data.rows[2]["id"] = Str(<<"coin", 2>>)
    /\ cache.data.rows[MaxPageLen + 1]["id"] = Str(<<"coin", 101>>)

\* C4: a page whose fetch returns null or an empty array adds no record and
\* the loop goes on to the next page; the cycle ends without an error, with
\* the records of the other pages in order, whenever some page had records.
C4_EmptyPageSkipped ==
    /\ [][(pc = "returned" /\ ~Truthy(coins)) =>
            /\ all_data' = all_data
            /\ page' = page + 1
            /\ pc' = "loop"
            /\ outcome' = outcome]_vars
    /\ [][(pc = "loop" /\ page <= 5) =>
            (pc' = "attempt" /\ req' = PageRequest(page))]_vars
    /\ [][(pc = "loop" /\ page > 5 /\ Total(pageLens) > 0) =>
            /\ pc' = "select"
            /\ outcome' = ""
            /\ Ids(pairs_df'.rows) = Ids(PagesInOrder(5))
            /\ Len(pairs_df'.rows) = Total(pageLens)]_vars

C4_Witness ==
    /\ pc = "done"
    /\ outcome = "table"
    /\ pageLens = <<MaxPageLen, MaxPageLen, 0, MaxPageLen, MaxPageLen>>
    /\ selected_columns = <<>>
    /\ Len(pairs_df.rows) = 4 * MaxPageLen
    /\ pairs_df.rows[2 * MaxPageLen + 1]["id"] = Str(<<"coin", 301>>)

\* C6: a run whose cycle got no record from any of the five pages ends in
\* the error state "No data available to display.", with no table and no
\* CSV, and not in an exception.
C6_EmptyDatasetErrorState ==
    (pc = "done" /\ Len(pageLens) = 5 /\ Total(pageLens) = 0) =>
        /\ outcome = "error: No data available to display."
        /\ styled_df = NoDf
        /\ csv = NoCsv

(***************************************************************************)
(* Properties of the cache.                                                *)
(***************************************************************************)
\* C5: a call starts an aggregation cycle exactly when nothing is stored or
\* what is stored is older than 24 hours; so of two calls within 24 hours
\* of each other only one starts a cycle: no cycle starts within 24 hours
\* of the call that started the one before.
C5_OneCyclePer24h ==
    /\ [][(pc = "idle" /\ pc' # "idle") =>
            ((pc' = "loop") <=> (cache = NoEntry \/ now - cache.at > 86400))]_vars
    /\ [][(pc = "idle" /\ pc' = "loop") =>
            (lastCycleAt = -1 \/ now - lastCycleAt > 86400)]_vars


\* The columns of the table a cycle builds.
FullColumns ==
    <<"id", "symbol", "current_price", "Total Volume in USD",
      "price_change_percentage_24h", "ath_date", "atl_date">>

\* The field of an API record that column c shows.
ApiField(c) == IF c = "Total Volume in USD" THEN "total_volume" ELSE c

\* C10: what the cache holds is the full table of the cycle that stored it:
\* all columns, one row per record in order, the dates as the API sent
\* them.  A call that is served is handed that table, and nothing a run
\* does after line 50 (coercing the dates, narrowing, formatting) changes
\* what is stored.
C10_StoredEntryImmutable ==
    /\ [](cache # NoEntry =>
            /\ cache.data.columns = FullColumns
            /\ Len(cache.data.rows) = Total(pageLens)
            /\ \A i \in 1..Len(cache.data.rows) :
                 \A c \in Range(FullColumns) \ {"symbol"} :
                    cache.data.rows[i][c] = PagesInOrder(5)[i][ApiField(c)])
    /\ [][(pc = "idle" /\ pc' = "select") =>
            (pairs_df' = cache.data /\ cache' = cache)]_vars
    /\ [][(pc \in {"select", "coerce", "render", "done"}) =>
            cache' = cache]_vars

C10_Witness ==
    /\ pc = "select"
    /\ cache # NoEntry
    /\ cache.at < now
    /\ pairs_df = cache.data
    /\ pairs_df.columns = FullColumns
    /\ pairs_df.rows[1]["ath_date"] = Str("not-a-date")

(***************************************************************************)
(* Properties of the rendering and the export.                             *)
(***************************************************************************)
Shown == IF selected_columns = <<>> THEN FullColumns ELSE selected_columns

NumericColumns ==
    {"current_price", "Total Volume in USD", "price_change_percentage_24h"}

\* C8: after the table is rendered the frame still holds, in every numeric
\* column shown, the number the API sent, and the CSV of the same run has
\* the shown columns with that number written in full in each such field;
\* the display strings are in the rendered table only.
C8_ExportIsRaw ==
    (pc = "done" /\ outcome = "table") =>
        /\ pairs_df.columns = Shown
        /\ styled_df.columns = Shown
        /\ csv.header = Shown
        /\ Len(pairs_df.rows) = Total(pageLens)
        /\ Len(csv.lines) = Total(pageLens)
        /\ \A i \in 1..Len(csv.lines) : \A j \in 1..Len(Shown) :
             Shown[j] \in NumericColumns =>
                LET raw == PagesInOrder(5)[i][ApiField(Shown[j])]
                IN  /\ pairs_df.rows[i][Shown[j]] = raw
                    /\ csv.lines[i][j] =
                         [t |-> "field", m |-> raw.m, e |-> raw.e]
                    /\ styled_df.rows[i][Shown[j]].t = "text"

C8_Witness ==
    /\ pc = "done"
    /\ selected_columns = <<"current_price", "price_change_percentage_24h">>
    /\ csv.lines[1] = <<[t |-> "field", m |-> 12345, e |-> 1],
                        [t |-> "field", m |-> 12345, e |-> 3]>>
    /\ styled_df.rows[1]["current_price"] =
         [t |-> "text", digits |-> [m |-> 12345, e |-> 1], decimals |-> 2,
          suffix |-> ""]
    /\ styled_df.rows[1]["price_change_percentage_24h"] =
         [t |-> "text", digits |-> [m |-> 1235, e |-> 2], decimals |-> 2,
          suffix |-> "%"]

\* How a date the API sent is to be shown.
ShownDate(raw) ==
    IF raw = Str("2021-11-10T14:24:11.849Z")
    THEN [t |-> "text", digits |-> <<2021, "-", 11, "-", 10>>,
          decimals |-> 0, suffix |-> ""]
    ELSE IF raw = Str("2013-07-06T00:00:00.000Z")
    THEN [t |-> "text", digits |-> <<2013, "-", 7, "-", 6>>,
          decimals |-> 0, suffix |-> ""]
    ELSE [t |-> "text", digits |-> "-", decimals |-> 0, suffix |-> ""]

Unparseable(raw) == raw \in {Str("not-a-date"), None}

\* C9: once the dates are coerced, a date of a record that does not parse
\* (or is missing) is the marker NaT and a date that parses is a timestamp;
\* the table shows the former as "-" and the latter as YYYY-MM-DD; and a run
\* that has records ends with the table, whatever their dates are.
C9_DatesNeverRaise ==
    /\ (pc = "render" \/ (pc = "done" /\ outcome = "table")) =>
          \A c \in {"ath_date", "atl_date"} \cap Range(pairs_df.columns) :
             \A i \in 1..Len(pairs_df.rows) :
                LET raw == PagesInOrder(5)[i][c]
                IN  /\ Unparseable(raw) <=> pairs_df.rows[i][c] = NaT
                    /\ ~Unparseable(raw) => pairs_df.rows[i][c].t = "ts"
                    /\ pc = "done" => styled_df.rows[i][c] = ShownDate(raw)
    /\ (pc = "done" /\ Total(pageLens) > 0) => outcome = "table"

C9_Witness ==
    /\ pc = "done"
    /\ selected_columns = <<"atl_date", "symbol", "ath_date">>
    /\ PagesInOrder(5)[1]["ath_date"] = Str("not-a-date")
    /\ pairs_df.rows[1]["ath_date"] = NaT
    /\ styled_df.rows[1]["ath_date"].digits = "-"
    /\ styled_df.rows[1]["atl_date"].digits = "-"
    /\ styled_df.rows[2]["atl_date"].digits = <<2013, "-", 7, "-", 6>>

=============================================================================
